---- MODULE Spec2Model ----
(***************************************************************************)
(* GearGuard: the maintenance-request lifecycle.                           *)
(*                                                                         *)
(* The persisted state is the table of MaintenanceRequest rows and the     *)
(* table of Equipment rows; the wall clock is the only other input the     *)
(* handlers read.  Every handler of maintenance/views.py that writes a     *)
(* MaintenanceRequest is one action; MaintenanceRequest.save() is part of  *)
(* each of them.                                                           *)
(*                                                                         *)
(* Representation:                                                         *)
(*   - a datetime is a number of seconds, a date a number of days;         *)
(*   - a Decimal with two places (duration_hours) is a number of           *)
(*     hundredths of an hour;                                              *)
(*   - a text is a sequence of characters, the empty sequence standing     *)
(*     for both None and '' (the code only tests texts for truthiness);    *)
(*   - None is -1 for numbers and "None" for references.                   *)
(***************************************************************************)
EXTENDS Integers, Sequences, FiniteSets, TLC

(***************************************************************************)
(* Bounds of the model.                                                    *)
(***************************************************************************)
\* number of times the wall clock advances
MaxTicks == 2

\* The amount by which the clock advances: 12 h 10 min, so that every
\* second advance starts a new day.  On this grid seconds/3600 never lies
\* exactly between two hundredths, and it rounds both up (1216.67) and
\* down (2433.33).
TickSteps == {43800}

None == -1
NoRef == "None"

(***************************************************************************)
(* The fixed data of the installation: accounts, their profile role, the   *)
(* teams and their members, the equipment.                                 *)
(***************************************************************************)
Anonymous == "anonymous"
Users == {"adm", "mgr", "tech", "usr"}
Actors == Users \cup {Anonymous}

\* UserProfile.role of the accounts that exist at the start
InitialRole ==
  [u \in Users |-> CASE u = "adm" -> "Admin"
                     [] u = "mgr" -> "Manager"
                     [] u = "tech" -> "Technician"
                     [] OTHER -> "User"]

Teams == {"T1"}

\* TeamMember rows: (team, user) pairs; a member may have any role
members == {<<"T1", "tech">>, <<"T1", "usr">>}

EquipmentIds == {"e1"}

\* Equipment.maintenance_team (required on Equipment)
equipment_team == [e \in EquipmentIds |-> "T1"]

STAGE_CHOICES == {"New", "In Progress", "Repaired", "Scrap"}
REQUEST_TYPE_CHOICES == {"Corrective", "Preventive"}

(***************************************************************************)
(* What the operators submit.  A specification draws the inputs of its     *)
(* handlers from one of these records:                                     *)
(*   pks        the primary keys of the rows that get created              *)
(*   outcomes   whether the request row's write succeeds (TRUE) or raises  *)
(*   stages     the stage values posted                                    *)
(*   durations  duration_hours as typed (hundredths; None = left blank)    *)
(*   summaries  resolution_summary as typed                                *)
(*   scheduled  scheduled_date as typed (None = left blank)                *)
(*   teams      maintenance_team as chosen for a Preventive request         *)
(*              (NoRef = left blank)                                        *)
(*   observe    whether the specification records each handler's response  *)
(* Requests act on each other only through the Equipment row they share,   *)
(* and save() reads nothing of another request, so the lifecycle is        *)
(* explored on one row that every handler may move through every stage.    *)
(***************************************************************************)
LifecycleInputs ==
  [pks |-> {1},
   outcomes |-> {TRUE},
   stages |-> STAGE_CHOICES \cup {"Bogus"},
   durations |-> {None, 0, 250},
   summaries |-> {<<>>, <<" ">>, <<"a">>, <<" ", "b">>},
   scheduled |-> {None, 0},
   teams |-> Teams,
   observe |-> FALSE]

\* The write of the request row may raise, and responses are recorded
FailingInputs ==
  [pks |-> {1},
   outcomes |-> BOOLEAN,
   stages |-> {"In Progress", "Scrap"},
   durations |-> {None},
   summaries |-> {<<>>, <<"a">>},
   scheduled |-> {None},
   teams |-> Teams,
   observe |-> TRUE]

\* The maintenance team of a Preventive request may be left blank
CreationInputs ==
  [pks |-> {1},
   outcomes |-> {TRUE},
   stages |-> STAGE_CHOICES,
   durations |-> {None},
   summaries |-> {<<"a">>},
   scheduled |-> {None},
   teams |-> Teams \cup {NoRef},
   observe |-> TRUE]

VARIABLES
  now,            \* the wall clock, in seconds
  ticks,          \* how many times the clock advanced
  requests,       \* pk -> MaintenanceRequest row
  equipment,      \* id -> Equipment row
  accounts,       \* username -> User row with its UserProfile.role
  registrations,  \* pk -> UserRegistration row
  last,           \* the response of the last handler: [op, pk, status, data]
  workers         \* worker -> the request it is serving, with the model
                  \* instances it holds in memory

vars ==
  <<now, ticks, requests, equipment, accounts, registrations, last, workers>>

\* request.user.profile.role of the existing accounts (NoRef: no profile)
role == [u \in DOMAIN accounts |-> accounts[u].role]

(***************************************************************************)
(* Pure helpers.                                                           *)
(***************************************************************************)
\* timezone.now().date()
DateOf(t) == t \div 86400

Today == DateOf(now)

\* Python: not x, for an optional datetime or date (always truthy when set)
IsSet(x) == x # None

\* Python: not x, for an optional Decimal: None and 0 are both falsy
Falsy(d) == d = None \/ d = 0

\* n / d rounded to the nearest integer, ties to even, for n >= 0, d > 0
RoundHalfEven(n, d) ==
  LET q == n \div d
      r == n % d
  IN  IF 2 * r < d THEN q
      ELSE IF 2 * r > d THEN q + 1
      ELSE IF q % 2 = 0 THEN q ELSE q + 1

\* round(time_diff.total_seconds() / 3600, 2), in hundredths of an hour
DurationOf(start, end) ==
  LET secs == end - start
  IN  IF secs >= 0 THEN RoundHalfEven(secs * 100, 3600)
      ELSE 0 - RoundHalfEven((0 - secs) * 100, 3600)

RECURSIVE LStrip(_)
LStrip(s) == IF s # <<>> /\ Head(s) = " " THEN LStrip(Tail(s)) ELSE s

RECURSIVE RStrip(_)
RStrip(s) ==
  IF s # <<>> /\ s[Len(s)] = " " THEN RStrip(SubSeq(s, 1, Len(s) - 1)) ELSE s

\* forms.CharField(strip=True).clean
Strip(s) == RStrip(LStrip(s))

(***************************************************************************)
(* MaintenanceRequest.save() and the rows it writes.                       *)
(***************************************************************************)
\* SaveOverdue without the test of the stage
SaveOverdue_AnyStage(r, t) ==
  IF IsSet(r.scheduled_date) THEN r.scheduled_date < DateOf(t) ELSE FALSE

\* models.py: the is_overdue value save() stores for row r at time t
SaveOverdue(r, t) ==
  IF IsSet(r.scheduled_date) /\ r.stage \notin {"Repaired", "Scrap"}
  THEN r.scheduled_date < DateOf(t)
  ELSE FALSE

\* ScrapCascade without the test of equipment.is_scrapped
ScrapCascade_Unguarded(r, e, t) ==
  IF r.stage = "Scrap"
  THEN [e EXCEPT !.is_scrapped = TRUE,
                 !.scrap_date = DateOf(t),
                 !.scrap_reason = IF r.resolution_summary # <<>>
                                  THEN r.resolution_summary ELSE @]
  ELSE e

\* models.py: the Equipment row after save() of request r at time t;
\* e is the row as loaded (self.equipment)
ScrapCascade(r, e, t) ==
  IF r.stage = "Scrap" /\ ~e.is_scrapped
  THEN [e EXCEPT !.is_scrapped = TRUE,
                 !.scrap_date = DateOf(t),
                 !.scrap_reason = IF r.resolution_summary # <<>>
                                  THEN r.resolution_summary ELSE @]
  ELSE e

\* The request row as written by super().save()
SavedRow(r, t) == [r EXCEPT !.is_overdue = SaveOverdue(r, t)]

\* save() of the in-memory request r under primary key pk.  The equipment
\* row is written first (self.equipment.save()), then the request row
\* (super().save()); nothing wraps the two writes in a transaction, so a
\* request write that raises (ok = FALSE) leaves the equipment write in
\* place.
save(pk, r, ok) ==
  /\ equipment' = [equipment EXCEPT ![r.equipment] = ScrapCascade(r, @, now)]
  /\ requests' = IF ~ok THEN requests
                 ELSE IF pk \in DOMAIN requests
                      THEN [requests EXCEPT ![pk] = SavedRow(r, now)]
                      ELSE Append(requests, SavedRow(r, now))

\* A response without a body
NoData == <<>>

\* No response on record
Idle == [op |-> "none", pk |-> 0, status |-> 0, data |-> NoData]

\* The worker processes that serve requests
Workers == {"w1", "w2"}

\* A worker that serves nothing and holds no model instance
Resting ==
  [pc |-> "idle", op |-> "none", actor |-> Anonymous, pk |-> 0,
   stage |-> NoRef, r |-> <<>>, e |-> <<>>, cascaded |-> FALSE]

\* Every worker at rest: the handlers above the concurrency section run
\* from receipt to response in one step
NoWorkers == [w \in Workers |-> Resting]

\* The handler returned without writing anything
Rejected(in, op, status) ==
  /\ last' = IF in.observe
             THEN [op |-> op, pk |-> 0, status |-> status, data |-> NoData]
             ELSE Idle
  /\ UNCHANGED <<workers, now, ticks, requests, equipment, accounts, registrations>>

\* The handler reached save(); an exception raised by the write is
\* answered with status 500
Saving(in, op, pk, r, ok, status) ==
  /\ save(pk, r, ok)
  /\ last' = IF in.observe
             THEN [op |-> op, pk |-> pk,
                   status |-> IF ok THEN status ELSE 500, data |-> NoData]
             ELSE Idle
  /\ UNCHANGED <<workers, now, ticks, accounts, registrations>>

\* MaintenanceTeam.objects.filter(members__user=user)
technician_teams(user) == {t \in Teams : <<t, user>> \in members}

\* request_obj.assigned_technician != user and
\* request_obj.maintenance_team not in technician_teams
NoAccess(r, user) ==
  /\ r.assigned_technician # user
  /\ r.maintenance_team \notin technician_teams(user)

\* get_object_or_404: the handlers below are taken for existing rows only

(***************************************************************************)
(* views.py: start_task                                                    *)
(***************************************************************************)
\* the in-memory request after start_task's assignments
Started(r0, user, t) ==
  [r0 EXCEPT !.stage = "In Progress",
             !.actual_start_time = t,
             !.assigned_technician = IF @ = NoRef THEN user ELSE @]

start_task(actor, pk, in) ==
  IF actor = Anonymous THEN Rejected(in, "start_task", 401)
  ELSE IF NoAccess(requests[pk], actor) THEN Rejected(in, "start_task", 403)
  ELSE \E ok \in in.outcomes :
         Saving(in, "start_task", pk, Started(requests[pk], actor, now), ok, 200)

(***************************************************************************)
(* views.py: end_task                                                      *)
(***************************************************************************)
\* the in-memory request after end_task's assignments
Ended(r0, t) ==
  [r0 EXCEPT !.actual_end_time = t,
             !.duration_hours = DurationOf(r0.actual_start_time, t),
             !.stage = "Repaired",
             !.completed_date = DateOf(t)]

\* An ownership test that also admits the members of the request's team
NotAssigned_TeamAdmitted(r, user) == NoAccess(r, user)

\* request_obj.assigned_technician != request.user
NotAssigned(r, user) == r.assigned_technician # user

\* A start test that lets every request through
NotStarted_Never(r) == FALSE

\* not request_obj.actual_start_time
NotStarted(r) == ~IsSet(r.actual_start_time)

end_task(actor, pk, in) ==
  IF actor = Anonymous THEN Rejected(in, "end_task", 401)
  ELSE IF NotAssigned(requests[pk], actor)
       THEN Rejected(in, "end_task", 403)
  ELSE IF NotStarted(requests[pk])
       THEN Rejected(in, "end_task", 400)
  ELSE \E ok \in in.outcomes :
         Saving(in, "end_task", pk, Ended(requests[pk], now), ok, 200)

(***************************************************************************)
(* views.py: update_request_stage (the kanban endpoint).  Only             *)
(* authentication is checked; no role is.                                  *)
(***************************************************************************)
\* A stage update that leaves the start time alone
StageUpdated_StartKept(r0, new_stage, t) ==
  IF new_stage = "In Progress" THEN [r0 EXCEPT !.stage = new_stage]
  ELSE [r0 EXCEPT !.stage = new_stage, !.actual_end_time = t,
                  !.completed_date = DateOf(t)]

\* the in-memory request after the stage and timestamp assignments
StageUpdated(r0, new_stage, t) ==
  LET r1 == [r0 EXCEPT !.stage = new_stage]
  IN  IF new_stage = "In Progress" /\ ~IsSet(r1.actual_start_time)
      THEN [r1 EXCEPT !.actual_start_time = t]
      ELSE IF new_stage \in {"Repaired", "Scrap"}
      THEN LET r2 == IF ~IsSet(r1.actual_end_time)
                     THEN [r1 EXCEPT !.actual_end_time = t] ELSE r1
               r3 == IF IsSet(r2.actual_start_time) /\ Falsy(r2.duration_hours)
                     THEN [r2 EXCEPT !.duration_hours =
                             DurationOf(r2.actual_start_time,
                                        r2.actual_end_time)]
                     ELSE r2
           IN  IF ~IsSet(r3.completed_date)
               THEN [r3 EXCEPT !.completed_date = DateOf(t)] ELSE r3
      ELSE r1

update_request_stage(actor, pk, in) ==
  IF actor = Anonymous THEN Rejected(in, "update_request_stage", 401)
  ELSE \E new_stage \in in.stages :
         IF new_stage \notin STAGE_CHOICES
         THEN Rejected(in, "update_request_stage", 400)
         ELSE \E ok \in in.outcomes :
                Saving(in, "update_request_stage", pk,
                       StageUpdated(requests[pk], new_stage, now), ok, 200)

(***************************************************************************)
(* views.py: MaintenanceRequestUpdateView with forms.py:                   *)
(* MaintenanceRequestUpdateForm (fields assigned_technician, stage,        *)
(* priority).                                                              *)
(***************************************************************************)
\* User.objects.filter(profile__role='Technician')
Technicians == {u \in Users : role[u] = "Technician"}

\* AdminOrManagerRequiredMixin.dispatch: 0 when the actor passes
AdminOrManagerGate(actor) ==
  IF actor = Anonymous THEN 302
  ELSE IF role[actor] \notin {"Admin", "Manager"} THEN 403
  ELSE 0

\* MaintenanceRequestUpdateView.form_valid on the constructed instance
ManagerFormValid(r, t) ==
  IF r.stage \in {"Repaired", "Scrap"}
  THEN LET r1 == IF ~IsSet(r.completed_date)
                 THEN [r EXCEPT !.completed_date = DateOf(t)] ELSE r
           r2 == IF ~IsSet(r1.actual_end_time)
                 THEN [r1 EXCEPT !.actual_end_time = t] ELSE r1
       IN  IF IsSet(r2.actual_start_time) /\ Falsy(r2.duration_hours)
           THEN [r2 EXCEPT !.duration_hours =
                   DurationOf(r2.actual_start_time, r2.actual_end_time)]
           ELSE r2
  ELSE IF r.stage = "In Progress" /\ ~IsSet(r.actual_start_time)
  THEN [r EXCEPT !.actual_start_time = t]
  ELSE r

manager_update(actor, pk, in) ==
  IF AdminOrManagerGate(actor) # 0
  THEN Rejected(in, "manager_update", AdminOrManagerGate(actor))
  ELSE \E technician \in Technicians \cup {NoRef}, stage \in in.stages :
         IF stage \notin STAGE_CHOICES
         THEN Rejected(in, "manager_update", 200)   \* form re-displayed
         ELSE LET r1 == [requests[pk] EXCEPT
                           !.assigned_technician = technician,
                           !.stage = stage]
              IN  \E ok \in in.outcomes :
                    Saving(in, "manager_update", pk, ManagerFormValid(r1, now),
                           ok, 302)

(***************************************************************************)
(* views.py: TechnicianRequestDetailView with forms.py:                    *)
(* TechnicianRequestUpdateForm (fields stage, duration_hours,              *)
(* technician_notes, resolution_summary).                                  *)
(***************************************************************************)
\* A form that offers every stage
stage_choices_All(current_stage) == STAGE_CHOICES

\* TechnicianRequestUpdateForm.__init__: the stage choices offered
stage_choices(current_stage) ==
  CASE current_stage = "New" -> {"New", "In Progress"}
    [] current_stage = "In Progress" -> {"In Progress", "Repaired", "Scrap"}
    [] current_stage = "Repaired" -> {"Repaired"}
    [] current_stage = "Scrap" -> {"Scrap"}
    [] OTHER -> STAGE_CHOICES

\* TechnicianRequestUpdateForm.clean: TRUE when the form validates
TechnicianFormClean(stage, resolution_summary) ==
  ~(stage = "Repaired" /\ resolution_summary = <<>>)

\* TechnicianRequestDetailView.form_valid on the constructed instance
TechnicianFormValid(r, user, t) ==
  LET r1 == IF r.stage = "Repaired" /\ ~IsSet(r.completed_date)
            THEN [r EXCEPT !.completed_date = DateOf(t)] ELSE r
      r2 == IF r1.stage = "In Progress" /\ ~IsSet(r1.actual_start_time)
            THEN [r1 EXCEPT !.actual_start_time = t] ELSE r1
      r3 == IF r2.stage \in {"Repaired", "Scrap"} /\ ~IsSet(r2.actual_end_time)
            THEN LET r2e == [r2 EXCEPT !.actual_end_time = t]
                 IN  IF IsSet(r2e.actual_start_time)
                     THEN [r2e EXCEPT !.duration_hours =
                             DurationOf(r2e.actual_start_time,
                                        r2e.actual_end_time)]
                     ELSE r2e
            ELSE r2
  IN  IF r3.assigned_technician = NoRef
      THEN [r3 EXCEPT !.assigned_technician = user] ELSE r3

technician_update(actor, pk, in) ==
  \* dispatch() calls get_object() first; its queryset filters on the
  \* user, which raises for AnonymousUser
  IF actor = Anonymous THEN Rejected(in, "technician_update", 500)
  ELSE IF NoAccess(requests[pk], actor)
       THEN Rejected(in, "technician_update", 404)
  ELSE IF role[actor] # "Technician"
       THEN Rejected(in, "technician_update", 403)
  ELSE \E stage \in in.stages, duration_hours \in in.durations,
          summary \in in.summaries :
         IF stage \notin stage_choices(requests[pk].stage)
              \/ ~TechnicianFormClean(stage, Strip(summary))
         THEN Rejected(in, "technician_update", 200)   \* form re-displayed
         ELSE LET r1 == [requests[pk] EXCEPT
                           !.stage = stage,
                           !.duration_hours = duration_hours,
                           !.resolution_summary = Strip(summary)]
              IN  \E ok \in in.outcomes :
                    Saving(in, "technician_update", pk,
                           TechnicianFormValid(r1, actor, now), ok, 302)

(***************************************************************************)
(* Creation of requests.                                                   *)
(***************************************************************************)
\* A MaintenanceRequest with the model's field defaults
NewRequest(request_type, e) ==
  [request_type |-> request_type,
   stage |-> "New",
   equipment |-> e,
   maintenance_team |-> NoRef,
   assigned_technician |-> NoRef,
   scheduled_date |-> None,
   completed_date |-> None,
   duration_hours |-> None,
   actual_start_time |-> None,
   actual_end_time |-> None,
   is_overdue |-> FALSE,
   resolution_summary |-> <<>>]

\* Equipment.objects.filter(is_scrapped=False): the equipment choices of
\* both creation forms
SelectableEquipment == {e \in EquipmentIds : ~equipment[e].is_scrapped}

\* UserRequiredMixin.dispatch: 0 when the actor passes
UserGate(actor) ==
  IF actor = Anonymous THEN 302
  ELSE IF role[actor] # "User" THEN 403
  ELSE 0

\* UserBreakdownRequestForm.save / UserCreateRequestView.form_valid
BreakdownRequest(e) ==
  [NewRequest("Corrective", e) EXCEPT !.maintenance_team = equipment_team[e]]

\* views.py: UserCreateRequestView
user_create_request(actor, in) ==
  /\ Len(requests) + 1 \in in.pks
  /\ IF UserGate(actor) # 0
     THEN Rejected(in, "user_create_request", UserGate(actor))
     ELSE \E e \in EquipmentIds :
            IF e \notin SelectableEquipment
            THEN Rejected(in, "user_create_request", 200)
            ELSE \E ok \in in.outcomes :
                   Saving(in, "user_create_request", Len(requests) + 1,
                          BreakdownRequest(e), ok, 302)

\* PreventiveMaintenanceForm + PreventiveMaintenanceCreateView.form_valid
PreventiveRequest(e, team, technician, scheduled_date) ==
  [NewRequest("Preventive", e) EXCEPT !.maintenance_team = team,
                                      !.assigned_technician = technician,
                                      !.scheduled_date = scheduled_date]

\* views.py: PreventiveMaintenanceCreateView
preventive_create(actor, in) ==
  /\ Len(requests) + 1 \in in.pks
  /\ IF AdminOrManagerGate(actor) # 0
     THEN Rejected(in, "preventive_create", AdminOrManagerGate(actor))
     ELSE \E e \in EquipmentIds, team \in in.teams,
             technician \in Technicians \cup {NoRef},
             scheduled_date \in in.scheduled :
            IF e \notin SelectableEquipment
            THEN Rejected(in, "preventive_create", 200)
            ELSE \E ok \in in.outcomes :
                   Saving(in, "preventive_create", Len(requests) + 1,
                          PreventiveRequest(e, team, technician,
                                            scheduled_date),
                          ok, 302)

(***************************************************************************)
(* The wall clock.                                                         *)
(***************************************************************************)
Advance(d) ==
  /\ ticks < MaxTicks
  /\ now' = now + d
  /\ ticks' = ticks + 1
  /\ last' = Idle
  /\ UNCHANGED <<workers, requests, equipment, accounts, registrations>>

(***************************************************************************)
(* The specifications.                                                     *)
(***************************************************************************)
\* An Equipment row that is in service
NewEquipment(maintenance_interval_days, purchase_date) ==
  [is_scrapped |-> FALSE, scrap_date |-> None, scrap_reason |-> <<>>,
   maintenance_interval_days |-> maintenance_interval_days,
   purchase_date |-> purchase_date]

\* The accounts that exist at the start, each with its profile
InitialAccounts ==
  [u \in Users |-> [email |-> <<u, "@">>, role |-> InitialRole[u]]]

Init ==
  /\ now = 0
  /\ ticks = 0
  /\ requests = <<>>
  /\ equipment = [e \in EquipmentIds |-> NewEquipment(None, None)]
  /\ accounts = InitialAccounts
  /\ registrations = <<>>
  /\ last = Idle
  /\ workers = NoWorkers

\* One step of the application with the inputs drawn from `in`
Step(in) ==
  \/ \E d \in TickSteps : Advance(d)
  \/ \E actor \in Actors : user_create_request(actor, in)
  \/ \E actor \in Actors : preventive_create(actor, in)
  \/ \E actor \in Actors, pk \in DOMAIN requests : start_task(actor, pk, in)
  \/ \E actor \in Actors, pk \in DOMAIN requests : end_task(actor, pk, in)
  \/ \E actor \in Actors, pk \in DOMAIN requests :
       update_request_stage(actor, pk, in)
  \/ \E actor \in Actors, pk \in DOMAIN requests :
       manager_update(actor, pk, in)
  \/ \E actor \in Actors, pk \in DOMAIN requests :
       technician_update(actor, pk, in)

Next == Step(LifecycleInputs)

\* every write succeeds
Spec == Init /\ [][Next]_vars

NextFailing == Step(FailingInputs)

\* the write of the request row may raise
SpecFailing == Init /\ [][NextFailing]_vars

NextCreation == Step(CreationInputs)

\* the team of a Preventive request may be left blank
SpecCreation == Init /\ [][NextCreation]_vars

TypeOK ==
  /\ now \in Nat
  /\ ticks \in 0..MaxTicks
  /\ \A pk \in DOMAIN requests :
       /\ requests[pk].stage \in STAGE_CHOICES
       /\ requests[pk].request_type \in REQUEST_TYPE_CHOICES
       /\ requests[pk].equipment \in EquipmentIds


(***************************************************************************)
(* The properties.                                                         *)
(***************************************************************************)
TerminalStages == {"Repaired", "Scrap"}

\* The overdue rule of the data model, for row r on day `day`
OverdueRule(r, day) ==
  /\ r.scheduled_date # None
  /\ r.stage \notin TerminalStages
  /\ r.scheduled_date < day

\* Row pk was created or changed by the step
Written(pk) == pk \notin DOMAIN requests \/ requests'[pk] # requests[pk]

\* C1: every step that writes a request row leaves the row with
\* is_overdue = (scheduled_date set, stage neither Repaired nor Scrap,
\* scheduled_date < today), whichever handler wrote it.
C1_OverdueAfterSave ==
  [][\A pk \in DOMAIN requests' :
       Written(pk) =>
         (requests'[pk].is_overdue <=> OverdueRule(requests'[pk], Today'))]_vars

\* C1 witness: a request scheduled before today was saved into Scrap or
\* Repaired today and is stored as not overdue, after the date had passed
C1_Witness ==
  \E pk \in DOMAIN requests :
    /\ requests[pk].stage \in TerminalStages
    /\ requests[pk].scheduled_date # None
    /\ requests[pk].scheduled_date < Today
    /\ requests[pk].completed_date = Today
    /\ ~requests[pk].is_overdue

\* views.py, ManagerDashboardView: the requests counted as overdue
DashboardOverdue(r) == r.is_overdue /\ r.stage \notin TerminalStages

\* C2: in every state, also the states reached by the clock alone, the
\* overdue flag the dashboards read equals the overdue rule for today.
C2_OverdueFollowsClock ==
  \A pk \in DOMAIN requests :
    DashboardOverdue(requests[pk]) <=> OverdueRule(requests[pk], Today)

\* C3: once a request is Repaired or Scrap, no step changes its stage.
C3_TerminalStagesStay ==
  [][\A pk \in DOMAIN requests :
       requests[pk].stage \in TerminalStages =>
         requests'[pk].stage = requests[pk].stage]_vars

\* New < In Progress < {Repaired, Scrap}
StageRank(stage) ==
  CASE stage = "New" -> 0
    [] stage = "In Progress" -> 1
    [] OTHER -> 2

\* C4: no step moves a request's stage to a lower rank of the order
\* New < In Progress < {Repaired, Scrap}.
C4_StageOnlyForward ==
  [][\A pk \in DOMAIN requests :
       StageRank(requests'[pk].stage) >= StageRank(requests[pk].stage)]_vars

\* C5: in every state a request in stage Repaired has a non-empty
\* resolution_summary (no entry point stores Repaired without one).
C5_RepairedHasSummary ==
  \A pk \in DOMAIN requests :
    requests[pk].stage = "Repaired" => requests[pk].resolution_summary # <<>>

\* The step moves row pk from an open stage into Repaired or Scrap
Completes(pk) ==
  /\ requests[pk].stage \notin TerminalStages
  /\ requests'[pk].stage \in TerminalStages

\* The first save of C6: a started request without end time and duration
\* is moved to Repaired or Scrap at time now
C6_FirstSave(pk) ==
  ( /\ Completes(pk)
    /\ requests[pk].actual_start_time # None
    /\ requests[pk].actual_end_time = None
    /\ requests[pk].duration_hours = None )
  => /\ requests'[pk].actual_end_time = now
     /\ requests'[pk].duration_hours =
          DurationOf(requests[pk].actual_start_time, now)
     /\ requests'[pk].completed_date = Today

\* Row pk is submitted again with the values it already holds: the kanban
\* endpoint and the manager form with the same stage, the technician form
\* with the same stage and duration
SavedAgain(pk) ==
  LET same == [LifecycleInputs EXCEPT
                 !.stages = {requests[pk].stage},
                 !.durations = {requests[pk].duration_hours}]
  IN  \E actor \in Actors :
        \/ update_request_stage(actor, pk, same)
        \/ manager_update(actor, pk, same)
        \/ technician_update(actor, pk, same)

\* The second save of C6: a completed request, as the first save leaves it,
\* is saved again
C6_SecondSave(pk) ==
  ( /\ SavedAgain(pk)
    /\ requests[pk].stage \in TerminalStages
    /\ requests[pk].actual_start_time # None
    /\ requests[pk].actual_end_time # None
    /\ requests[pk].completed_date # None
    /\ requests[pk].duration_hours =
         DurationOf(requests[pk].actual_start_time,
                    requests[pk].actual_end_time) )
  => /\ requests'[pk].duration_hours = requests[pk].duration_hours
     /\ requests'[pk].actual_end_time = requests[pk].actual_end_time
     /\ requests'[pk].completed_date = requests[pk].completed_date

\* C6: a started request without end time and duration that is moved to
\* Repaired or Scrap at time now gets actual_end_time = now, duration_hours
\* = round(seconds / 3600, 2) and completed_date = today; saving it again
\* leaves the three fields unchanged.
C6_CompletionFillsFields ==
  [][\A pk \in DOMAIN requests : C6_FirstSave(pk) /\ C6_SecondSave(pk)]_vars

\* C7: a duration_hours that is present (0 included) when a request is
\* completed is the duration_hours of the completed request: the stored
\* value for end_task, the kanban endpoint and the manager form, the
\* submitted value for the technician form.
C7_PresentDurationKept ==
  [][\A pk \in DOMAIN requests, actor \in Actors :
       /\ ( /\ \/ end_task(actor, pk, LifecycleInputs)
               \/ update_request_stage(actor, pk, LifecycleInputs)
               \/ manager_update(actor, pk, LifecycleInputs)
            /\ Completes(pk)
            /\ requests[pk].duration_hours # None )
          => requests'[pk].duration_hours = requests[pk].duration_hours
       /\ \A d \in LifecycleInputs.durations \ {None} :
            ( /\ technician_update(actor, pk,
                    [LifecycleInputs EXCEPT !.durations = {d}])
              /\ Completes(pk) )
            => requests'[pk].duration_hours = d]_vars

\* C8: in every state duration_hours is unset or >= 0, and
\* actual_end_time >= actual_start_time whenever both are set.
C8_TimesOrdered ==
  \A pk \in DOMAIN requests :
    /\ requests[pk].duration_hours = None \/ requests[pk].duration_hours >= 0
    /\ ( requests[pk].actual_start_time # None
         /\ requests[pk].actual_end_time # None )
       => requests[pk].actual_end_time >= requests[pk].actual_start_time

\* C9: a step that writes a request in stage Scrap whose equipment was not
\* scrapped sets is_scrapped, scrap_date = today and scrap_reason = the
\* request's resolution_summary when it has one; once an equipment is
\* scrapped no step changes its is_scrapped, scrap_date or scrap_reason.
C9_ScrapOnce ==
  [][/\ \A e \in EquipmentIds :
          equipment[e].is_scrapped => equipment'[e] = equipment[e]
     /\ \A pk \in DOMAIN requests' :
          ( /\ Written(pk)
            /\ requests'[pk].stage = "Scrap"
            /\ ~equipment[requests'[pk].equipment].is_scrapped )
          => equipment'[requests'[pk].equipment] =
               [equipment[requests'[pk].equipment] EXCEPT
                  !.is_scrapped = TRUE,
                  !.scrap_date = Today,
                  !.scrap_reason =
                    IF requests'[pk].resolution_summary # <<>>
                    THEN requests'[pk].resolution_summary ELSE @]]_vars

\* C9 witness: a request that was started on a day after its equipment was
\* scrapped is in stage Scrap with a summary that differs from the
\* equipment's scrap_reason
C9_Witness ==
  \E pk \in DOMAIN requests :
    LET e == equipment[requests[pk].equipment]
    IN  /\ e.is_scrapped
        /\ requests[pk].stage = "Scrap"
        /\ requests[pk].actual_start_time # None
        /\ DateOf(requests[pk].actual_start_time) > e.scrap_date
        /\ requests[pk].resolution_summary # <<>>
        /\ requests[pk].resolution_summary # e.scrap_reason

\* C10: the scrap transition is atomic: a step marks an equipment as
\* scrapped exactly when it persists a request of that equipment in stage
\* Scrap, also when the write of the request fails after the write of the
\* equipment.
C10_ScrapAtomic ==
  [][\A e \in EquipmentIds :
       ~equipment[e].is_scrapped =>
         ( equipment'[e].is_scrapped <=>
             \E pk \in DOMAIN requests' :
               /\ Written(pk)
               /\ requests'[pk].equipment = e
               /\ requests'[pk].stage = "Scrap" )]_vars

\* C11: the manager form and the kanban endpoint change a request or its
\* equipment only for an actor whose role is Admin or Manager; for any
\* other authenticated actor they leave both unchanged.
C11_ManagerOpsNeedRole ==
  [][\A pk \in DOMAIN requests, actor \in Users :
       ( /\ role[actor] \notin {"Admin", "Manager"}
         /\ \/ manager_update(actor, pk, LifecycleInputs)
            \/ update_request_stage(actor, pk, LifecycleInputs) )
       => UNCHANGED <<requests, equipment>>]_vars

\* C13: start_task and end_task change a request only for an actor whose
\* role is Technician; an assigned technician or team member with another
\* role leaves the request unchanged.
C13_OwnershipOnTopOfRole ==
  [][\A pk \in DOMAIN requests, actor \in Users :
       ( /\ role[actor] # "Technician"
         /\ \/ start_task(actor, pk, LifecycleInputs)
            \/ end_task(actor, pk, LifecycleInputs) )
       => UNCHANGED <<requests, equipment>>]_vars

\* The step starts row pk: start_task, or a write by the kanban endpoint
\* or the technician form that moves the row into In Progress
Starts(pk) ==
  \E actor \in Actors :
    \/ start_task(actor, pk, LifecycleInputs) /\ Written(pk)
    \/ /\ \/ update_request_stage(actor, pk, LifecycleInputs)
          \/ technician_update(actor, pk, LifecycleInputs)
       /\ requests[pk].stage # "In Progress"
       /\ requests'[pk].stage = "In Progress"

\* C14: starting a request keeps an actual_start_time and an
\* assigned_technician that are already set, and is applied only to a
\* request in stage New or In Progress.
C14_StartKeepsWhatIsSet ==
  [][\A pk \in DOMAIN requests :
       Starts(pk) =>
         /\ requests[pk].stage \in {"New", "In Progress"}
         /\ requests[pk].actual_start_time # None =>
              requests'[pk].actual_start_time = requests[pk].actual_start_time
         /\ requests[pk].assigned_technician # NoRef =>
              requests'[pk].assigned_technician =
                requests[pk].assigned_technician]_vars

\* C15: in every state a request in stage Repaired or Scrap has both
\* completed_date and actual_end_time set, and a duration_hours when it
\* has an actual_start_time (Scrap gets the side effects of Repaired on
\* every entry point).
C15_ScrapLikeRepaired ==
  \A pk \in DOMAIN requests :
    requests[pk].stage \in TerminalStages =>
      /\ requests[pk].completed_date # None
      /\ requests[pk].actual_end_time # None

(***************************************************************************)
(* Dates as Python computes them.  A date is a number of days since        *)
(* 1970-01-01; date + timedelta(days=n) is the sum.  strftime('%Y-%m-%d')  *)
(* is used only as a dictionary key and is one-to-one, so the key of a     *)
(* date is the date.                                                       *)
(***************************************************************************)
\* date(1970, 1, 1).toordinal()
EpochOrdinal == 719163

\* calendar.isleap
isleap(year) == year % 4 = 0 /\ (year % 100 # 0 \/ year % 400 = 0)

\* calendar.mdays[1..12]
mdays == <<31, 28, 31, 30, 31, 30, 31, 31, 30, 31, 30, 31>>

\* monthrange without the leap years of the Gregorian centuries
days_in_month_Julian(year, month) ==
  mdays[month] + (IF month = 2 /\ year % 4 = 0 THEN 1 ELSE 0)

\* calendar.monthrange(year, month)[1] and datetime._days_in_month
days_in_month(year, month) ==
  mdays[month] + (IF month = 2 /\ isleap(year) THEN 1 ELSE 0)

\* datetime._days_before_year
days_before_year(year) ==
  LET y == year - 1
  IN  y * 365 + (y \div 4) - (y \div 100) + (y \div 400)

\* datetime._days_before_month
RECURSIVE days_before_month(_, _)
days_before_month(year, month) ==
  IF month = 1 THEN 0
  ELSE days_before_month(year, month - 1) + days_in_month(year, month - 1)

\* datetime(year, month, day).date()
date(year, month, day) ==
  days_before_year(year) + days_before_month(year, month) + day
    - EpochOrdinal

\* date.weekday(): Monday is 0
weekday(d) == (d + EpochOrdinal + 6) % 7

(***************************************************************************)
(* models.py: Equipment.get_next_maintenance_date                          *)
(***************************************************************************)
\* the completed requests of any type
CompletedOfAnyType(e) ==
  {pk \in DOMAIN requests :
     requests[pk].equipment = e /\ requests[pk].stage = "Repaired"}

\* MaintenanceRequest.objects.filter(equipment=self,
\* request_type='Preventive', stage='Repaired')
CompletedPreventive(e) ==
  {pk \in DOMAIN requests :
     /\ requests[pk].equipment = e
     /\ requests[pk].request_type = "Preventive"
     /\ requests[pk].stage = "Repaired"}

\* Row a comes before row b under order_by('-completed_date',
\* '-actual_end_time'); PostgreSQL puts NULL first in descending order
OrderedBefore(a, b) ==
  LET key(x) == IF x = None THEN 0 ELSE 1
  IN  \/ key(a.completed_date) < key(b.completed_date)
      \/ /\ key(a.completed_date) = key(b.completed_date)
         /\ a.completed_date > b.completed_date
      \/ /\ a.completed_date = b.completed_date
         /\ \/ key(a.actual_end_time) < key(b.actual_end_time)
            \/ /\ key(a.actual_end_time) = key(b.actual_end_time)
               /\ a.actual_end_time >= b.actual_end_time

\* .first() of the ordered query: the rows that no other row precedes
\* strictly agree on completed_date and actual_end_time
last_preventive(e) ==
  LET rows == CompletedPreventive(e)
  IN  IF rows = {} THEN None
      ELSE CHOOSE pk \in rows :
             \A other \in rows :
               OrderedBefore(requests[pk], requests[other])

get_next_maintenance_date(e, t) ==
  LET interval == equipment[e].maintenance_interval_days
      first == last_preventive(e)
  IN  IF interval = None \/ interval = 0 THEN None
      ELSE IF first # None /\ requests[first].completed_date # None
      THEN requests[first].completed_date + interval
      ELSE IF equipment[e].purchase_date # None
      THEN equipment[e].purchase_date + interval
      ELSE DateOf(t) + interval

(***************************************************************************)
(* views.py: get_equipment_data.  The view has no access check.            *)
(***************************************************************************)
get_equipment_data(actor, e) ==
  /\ last' = [op |-> "get_equipment_data", pk |-> 0, status |-> 200,
              data |-> [equipment |-> e,
                        maintenance_team_id |-> equipment_team[e],
                        maintenance_interval_days |->
                          equipment[e].maintenance_interval_days,
                        next_maintenance_date |->
                          get_next_maintenance_date(e, now)]]
  /\ UNCHANGED <<workers, now, ticks, requests, equipment, accounts, registrations>>

(***************************************************************************)
(* views.py: PreventiveMaintenanceCalendarView                             *)
(***************************************************************************)
\* preventive_requests: the explicitly scheduled requests of the month
preventive_requests(start_date, end_date) ==
  {pk \in DOMAIN requests :
     /\ requests[pk].request_type = "Preventive"
     /\ requests[pk].scheduled_date # None
     /\ requests[pk].scheduled_date >= start_date
     /\ requests[pk].scheduled_date <= end_date
     /\ requests[pk].stage \notin {"Repaired", "Scrap"}}

\* equipment_with_intervals
equipment_with_intervals ==
  {e \in EquipmentIds :
     /\ equipment[e].maintenance_interval_days # None
     /\ equipment[e].maintenance_interval_days > 0
     /\ ~equipment[e].is_scrapped}

\* existing_request that looks only at completed requests
existing_request_Completed(e, current_date) ==
  \E pk \in DOMAIN requests :
    /\ requests[pk].equipment = e
    /\ requests[pk].request_type = "Preventive"
    /\ requests[pk].scheduled_date = current_date
    /\ requests[pk].stage = "Repaired"

\* existing_request: whether the query for a request of the equipment on
\* the date finds a row
existing_request(e, current_date) ==
  \E pk \in DOMAIN requests :
    /\ requests[pk].equipment = e
    /\ requests[pk].request_type = "Preventive"
    /\ requests[pk].scheduled_date = current_date
    /\ requests[pk].stage \notin {"Scrap"}

\* The 'scheduled' descriptor of request pk
ScheduledEntry(pk) ==
  [type |-> "scheduled", equipment |-> requests[pk].equipment,
   assigned_technician |-> requests[pk].assigned_technician,
   pk |-> pk, date |-> requests[pk].scheduled_date]

\* The 'interval' descriptor of equipment e on current_date
IntervalEntry(e, current_date) ==
  [type |-> "interval", equipment |-> e, assigned_technician |-> NoRef,
   pk |-> None, date |-> current_date]

\* the while loop that stops after the first occurrence
recurring_Once(e, current_date, end_date) ==
  IF current_date <= end_date /\ ~existing_request(e, current_date)
  THEN {IntervalEntry(e, current_date)} ELSE {}

\* the while loop: the entries added from current_date on
RECURSIVE recurring(_, _, _)
recurring(e, current_date, end_date) ==
  IF current_date <= end_date
  THEN (IF ~existing_request(e, current_date)
        THEN {IntervalEntry(e, current_date)} ELSE {})
       \cup recurring(e,
                      current_date + equipment[e].maintenance_interval_days,
                      end_date)
  ELSE {}

\* requests_by_date, as the set of the descriptors of all its lists
requests_by_date(year, month, t) ==
  LET start_date == date(year, month, 1)
      end_date == date(year, month, days_in_month(year, month))
      next(e) == get_next_maintenance_date(e, t)
  IN  {ScheduledEntry(pk) : pk \in preventive_requests(start_date, end_date)}
      \cup UNION {IF next(e) # None /\ next(e) <= end_date
                  THEN recurring(e, next(e), end_date) ELSE {} :
                  e \in equipment_with_intervals}

\* The None appended for a day before the month starts
NoCell == [date |-> None, day |-> None, requests |-> {}]

\* calendar_days: the empty cells before the month starts, then one cell
\* per day
calendar_days(year, month, t) ==
  LET first_weekday == weekday(date(year, month, 1))
      last_day == days_in_month(year, month)
      by_date == requests_by_date(year, month, t)
  IN  [i \in 1..first_weekday |-> NoCell]
      \o [day \in 1..last_day |->
            [date |-> date(year, month, day),
             day |-> day,
             requests |-> {x \in by_date : x.date = date(year, month, day)}]]

\* The months a specification asks the calendar for
ScheduleInputs ==
  [years |-> {2023}, months |-> {1, 2, 3}, observe |-> TRUE]

GridInputs ==
  [years |-> {1900, 1999, 2000, 2001, 2020, 2023, 2024, 2096, 2100},
   months |-> 1..12, observe |-> TRUE]

calendar_view(actor, in) ==
  IF AdminOrManagerGate(actor) # 0
  THEN Rejected(in, "calendar_view", AdminOrManagerGate(actor))
  ELSE \E year \in in.years, month \in in.months :
         /\ last' =
              [op |-> "calendar_view", pk |-> 0, status |-> 200,
               data |-> [year |-> year, month |-> month,
                         calendar_days |-> calendar_days(year, month, now),
                         prev_year |-> IF month = 1 THEN year - 1 ELSE year,
                         prev_month |-> IF month = 1 THEN 12 ELSE month - 1,
                         next_year |-> IF month = 12 THEN year + 1 ELSE year,
                         next_month |-> IF month = 12 THEN 1 ELSE month + 1,
                         today |-> DateOf(now)]]
         /\ UNCHANGED <<workers, now, ticks, requests, equipment, accounts,
                        registrations>>

(***************************************************************************)
(* The scheduler is read-only: its specifications start from a stored      *)
(* state and apply the two views to it.  The stored states are those the   *)
(* handlers above leave behind: a Repaired request has its completed_date  *)
(* and actual_end_time, and a request in stage Scrap has scrapped its      *)
(* equipment.                                                              *)
(***************************************************************************)
\* The dates of the stored rows
ScheduleDates ==
  [completed |-> {date(2023, 1, 5), date(2023, 1, 10)},
   scheduled |-> {None, date(2023, 2, 9), date(2023, 2, 14)},
   purchase |-> {None, date(2023, 1, 15)},
   today |-> date(2023, 1, 20)]

ScheduleIntervals == {None, 0, -30, 30, 90}

\* The request rows of equipment e
ScheduleRows(e) ==
  {[NewRequest(request_type, e) EXCEPT
      !.maintenance_team = equipment_team[e],
      !.stage = stage,
      !.scheduled_date = scheduled_date,
      !.completed_date = IF stage = "Repaired" THEN completed_date
                         ELSE None,
      !.actual_end_time = IF stage = "Repaired" THEN completed_date * 86400
                          ELSE None] :
     request_type \in REQUEST_TYPE_CHOICES,
     stage \in {"New", "Repaired", "Scrap"},
     scheduled_date \in ScheduleDates.scheduled,
     completed_date \in ScheduleDates.completed}

\* Stored tables of at most two requests
ScheduleTables ==
  {<<>>} \cup {<<r>> : r \in UNION {ScheduleRows(e) : e \in EquipmentIds}}
         \cup {<<r1, r2>> : r1 \in UNION {ScheduleRows(e) : e \in EquipmentIds},
                            r2 \in UNION {ScheduleRows(e) : e \in EquipmentIds}}

InitSchedule ==
  /\ now = ScheduleDates.today * 86400
  /\ ticks = 0
  /\ requests \in ScheduleTables
  /\ equipment \in
       [EquipmentIds ->
          {[NewEquipment(interval, purchase_date) EXCEPT
              !.is_scrapped = scrapped,
              !.scrap_date = IF scrapped THEN date(2023, 1, 12) ELSE None] :
             interval \in ScheduleIntervals,
             purchase_date \in ScheduleDates.purchase,
             scrapped \in BOOLEAN}]
  /\ \A pk \in DOMAIN requests :
       requests[pk].stage = "Scrap" =>
         equipment[requests[pk].equipment].is_scrapped
  /\ accounts = InitialAccounts
  /\ registrations = <<>>
  /\ last = Idle
  /\ workers = NoWorkers

NextSchedule ==
  \/ \E actor \in Actors, e \in EquipmentIds : get_equipment_data(actor, e)
  \/ \E actor \in Actors : calendar_view(actor, ScheduleInputs)

\* the scheduler on stored states
SpecSchedule == InitSchedule /\ [][NextSchedule]_vars

NextGrid == \E actor \in Actors : calendar_view(actor, GridInputs)

\* the calendar of many months on the empty installation
SpecGrid == Init /\ [][NextGrid]_vars

\* The response is a refusal: a redirect to the login page or an error
Denied(response) == response.status \in {302, 401, 403}

\* C12: the views deny an unauthenticated caller: the response is a
\* refusal without data and no table changes (here for the two read
\* views, get_equipment_data and the calendar).
C12_FailsClosed ==
  [][( \/ \E e \in EquipmentIds : get_equipment_data(Anonymous, e)
       \/ calendar_view(Anonymous, ScheduleInputs) )
     => /\ Denied(last')
        /\ UNCHANGED <<requests, equipment, accounts, registrations>>]_vars

\* The largest element of a non-empty set of numbers
Latest(S) == CHOOSE x \in S : \A y \in S : y <= x

\* The next due date as C16 states it
NextDue(e) ==
  LET interval == equipment[e].maintenance_interval_days
      completed == {requests[pk].completed_date :
                      pk \in {k \in DOMAIN requests :
                                /\ requests[k].equipment = e
                                /\ requests[k].request_type = "Preventive"
                                /\ requests[k].stage = "Repaired"}}
  IN  IF interval = None \/ interval = 0 THEN None
      ELSE IF completed # {} THEN Latest(completed) + interval
      ELSE IF equipment[e].purchase_date # None
      THEN equipment[e].purchase_date + interval
      ELSE Today + interval

\* C16: get_next_maintenance_date is none without an interval; otherwise
\* the latest completed_date of the equipment's Repaired Preventive
\* requests plus the interval; otherwise purchase_date plus the interval,
\* or today plus the interval when no purchase date is known (interval 90
\* and purchase date 2023-01-15 give 2023-04-15).  The endpoint returns
\* that date.
C16_NextMaintenanceDate ==
  /\ \A e \in EquipmentIds :
       /\ get_next_maintenance_date(e, now) = NextDue(e)
       /\ ( /\ equipment[e].maintenance_interval_days = 90
            /\ equipment[e].purchase_date = date(2023, 1, 15)
            /\ \A pk \in DOMAIN requests :
                 ~( /\ requests[pk].equipment = e
                    /\ requests[pk].request_type = "Preventive"
                    /\ requests[pk].stage = "Repaired" ) )
          => get_next_maintenance_date(e, now) = date(2023, 4, 15)
  /\ last.op = "get_equipment_data" =>
       last.data.next_maintenance_date = NextDue(last.data.equipment)

\* C16 witness: the endpoint answered for an equipment with interval 90
\* whose Corrective request was completed after its Preventive request;
\* the answer is the Preventive completion of 2023-01-05 plus 90 days
C16_Witness ==
  /\ last.op = "get_equipment_data"
  /\ equipment[last.data.equipment].maintenance_interval_days = 90
  /\ \E p, c \in DOMAIN requests :
       /\ requests[p].request_type = "Preventive"
       /\ requests[p].stage = "Repaired"
       /\ requests[p].completed_date = date(2023, 1, 5)
       /\ requests[c].request_type = "Corrective"
       /\ requests[c].stage = "Repaired"
       /\ requests[c].completed_date = date(2023, 1, 10)
  /\ last.data.next_maintenance_date = date(2023, 4, 5)

\* The number of days of a month by the rule of the Gregorian calendar
daysInMonth(year, month) ==
  CASE month \in {4, 6, 9, 11} -> 30
    [] month = 2 ->
         IF year % 400 = 0 \/ (year % 4 = 0 /\ year % 100 # 0)
         THEN 29 ELSE 28
    [] OTHER -> 31

\* The weekday of the first day of a month by Zeller's congruence,
\* Monday = 0
firstWeekday(year, month) ==
  LET m == IF month < 3 THEN month + 12 ELSE month
      y == IF month < 3 THEN year - 1 ELSE year
      K == y % 100
      J == y \div 100
      h == (1 + ((13 * (m + 1)) \div 5) + K + (K \div 4) + (J \div 4) + 5 * J)
             % 7
  IN  (h + 5) % 7

\* The dates on which requests_by_date lists a projected entry for e
IntervalDates(e, year, month) ==
  {x.date : x \in {y \in requests_by_date(year, month, now) :
                     y.type = "interval" /\ y.equipment = e}}

\* A Preventive request of e outside stage Scrap is scheduled on day d
Explicit(e, d) ==
  \E pk \in DOMAIN requests :
    /\ requests[pk].equipment = e
    /\ requests[pk].request_type = "Preventive"
    /\ requests[pk].scheduled_date = d
    /\ requests[pk].stage # "Scrap"

\* The projected occurrences as C17 states them
Projected(e, year, month) ==
  LET interval == equipment[e].maintenance_interval_days
      end == date(year, month, daysInMonth(year, month))
  IN  IF \/ equipment[e].is_scrapped
         \/ interval = None
         \/ interval <= 0
         \/ NextDue(e) > end
      THEN {}
      ELSE {d \in {NextDue(e) + k * interval :
                     k \in 0..((end - NextDue(e)) \div interval)} :
              ~Explicit(e, d)}

C18_NoDoubleEntry ==
  \A year \in ScheduleInputs.years, month \in ScheduleInputs.months :
    LET by_date == requests_by_date(year, month, now)
        scheduled == {x \in by_date : x.type = "scheduled"}
        interval == {x \in by_date : x.type = "interval"}
    IN  /\ by_date = scheduled \cup interval
        /\ {x.pk : x \in scheduled} =
             {pk \in DOMAIN requests :
                /\ requests[pk].request_type = "Preventive"
                /\ requests[pk].scheduled_date # None
                /\ requests[pk].scheduled_date >= date(year, month, 1)
                /\ requests[pk].scheduled_date <=
                     date(year, month, daysInMonth(year, month))
                /\ requests[pk].stage \notin TerminalStages}
        /\ \A x \in scheduled :
             /\ x.date = requests[x.pk].scheduled_date
             /\ x.equipment = requests[x.pk].equipment
        /\ \A x \in interval : x.pk = None /\ ~Explicit(x.equipment, x.date)
        /\ \A x \in scheduled, y \in interval :
             x.equipment = y.equipment => x.date # y.date

\* C18 witness: the calendar of February 2023 was computed while a New
\* Preventive request is scheduled on 2023-02-09, the day the equipment's
\* next service is due; that day's cell lists the request and nothing else
C18_Witness ==
  /\ last.op = "calendar_view"
  /\ last.status = 200
  /\ last.data.month = 2
  /\ \E e \in EquipmentIds, pk \in DOMAIN requests :
       /\ NextDue(e) = date(2023, 2, 9)
       /\ ~equipment[e].is_scrapped
       /\ requests[pk].equipment = e
       /\ requests[pk].request_type = "Preventive"
       /\ requests[pk].stage = "New"
       /\ requests[pk].scheduled_date = date(2023, 2, 9)
       /\ \E i \in DOMAIN last.data.calendar_days :
            /\ last.data.calendar_days[i].day = 9
            /\ \A x \in last.data.calendar_days[i].requests :
                 x.type = "scheduled"
            /\ ScheduledEntry(pk) \in last.data.calendar_days[i].requests

\* C19: the grid of (year, month) is firstWeekday(year, month) empty
\* cells followed by the day cells 1..daysInMonth(year, month) in order,
\* also without any request.
C19_CalendarGrid ==
  (last.op = "calendar_view" /\ last.status = 200) =>
    LET cells == last.data.calendar_days
        lead == firstWeekday(last.data.year, last.data.month)
        days == daysInMonth(last.data.year, last.data.month)
    IN  /\ Len(cells) = lead + days
        /\ \A i \in 1..lead : cells[i] = NoCell
        /\ \A day \in 1..days :
             /\ cells[lead + day].day = day
             /\ cells[lead + day].date = cells[lead + 1].date + day - 1

\* C19 witness: the grid of February 2024, a leap year that starts the
\* month on a Thursday: 3 empty cells and 29 day cells
C19_Witness ==
  /\ last.op = "calendar_view"
  /\ last.status = 200
  /\ last.data.year = 2024
  /\ last.data.month = 2
  /\ Len(last.data.calendar_days) = 3 + 29
  /\ last.data.calendar_days[3] = NoCell
  /\ last.data.calendar_days[4].day = 1
  /\ last.data.calendar_days[32].day = 29

(***************************************************************************)
(* Registration and approval.  An account is a Django User with the role   *)
(* of its UserProfile (NoRef when the user has no profile).                *)
(***************************************************************************)
\* UserRegistration.ROLE_CHOICES
ROLE_CHOICES == {"User", "Technician", "Manager"}

SignupInputs ==
  [usernames |-> {"new", "guest"},
   emails    |-> {<<"new", "@">>, <<"guest", "@">>},
   roles     |-> {"User", "Technician"},
   pks       |-> {1, 2},
   actors    |-> {Anonymous, "adm", "mgr", "new"},
   staff     |-> {"adm"},
   observe   |-> TRUE]

\* The response of a handler of this section
Answer(op, pk, status) ==
  last' = [op |-> op, pk |-> pk, status |-> status, data |-> NoData]

\* UserSignupForm.save on a valid form
NewRegistration(username, email, requested_role) ==
  [username       |-> username,
   email          |-> email,
   requested_role |-> requested_role,
   status         |-> "Pending",
   approved_by    |-> NoRef,
   approved_at    |-> None]

\* UserSignupForm.clean_username, clean_email and the unique columns of
\* UserRegistration that the model form validates
UserSignupFormValid(username, email) ==
  /\ username \notin DOMAIN accounts
  /\ ~\E pk \in DOMAIN registrations :
        /\ registrations[pk].username = username
        /\ registrations[pk].status = "Pending"
  /\ ~\E u \in DOMAIN accounts : accounts[u].email = email
  /\ ~\E pk \in DOMAIN registrations :
        /\ registrations[pk].email = email
        /\ registrations[pk].status = "Pending"
  /\ ~\E pk \in DOMAIN registrations :
        \/ registrations[pk].username = username
        \/ registrations[pk].email = email

\* SignupView: open to everyone
signup(username, email, requested_role) ==
  /\ IF UserSignupFormValid(username, email)
     THEN /\ registrations' =
               Append(registrations,
                      NewRegistration(username, email, requested_role))
          /\ Answer("signup", Len(registrations) + 1, 302)
     ELSE /\ registrations' = registrations
          /\ Answer("signup", 0, 200)
  /\ UNCHANGED <<workers, now, ticks, requests, equipment, accounts>>

\* manage.py create_manager --username --email
create_manager(username, email) ==
  /\ accounts' =
       IF username \in DOMAIN accounts
       THEN [accounts EXCEPT ![username].role = "Manager"]
       ELSE accounts @@ (username :> [email |-> email, role |-> "Manager"])
  /\ Answer("create_manager", 0, 0)
  /\ UNCHANGED <<workers, now, ticks, requests, equipment, registrations>>

\* The user form of the Django admin site: a user without profile
admin_add_user(username) ==
  /\ username \notin DOMAIN accounts
  /\ accounts' = accounts @@ (username :> [email |-> <<>>, role |-> NoRef])
  /\ Answer("admin_add_user", 0, 302)
  /\ UNCHANGED <<workers, now, ticks, requests, equipment, registrations>>

\* The test at the head of approve_registration and reject_registration
AdminGate(actor) ==
  /\ actor # Anonymous
  /\ actor \in DOMAIN accounts
  /\ accounts[actor].role # NoRef
  /\ accounts[actor].role = "Admin"

\* The registration after its approval
ApprovedBy(reg, actor, t) ==
  [reg EXCEPT !.status = "Approved", !.approved_by = actor,
              !.approved_at = t]

\* The branch for an existing username, leaving the role as it is
ExistingUser_RoleKept(accs, reg) == accs

\* The branch for an existing username: get_or_create the profile with the
\* requested role, or set the role of the profile found
ExistingUser(accs, reg) ==
  [accs EXCEPT ![reg.username].role = reg.requested_role]

\* create_user followed by get_or_create of the profile
CreatedUser(accs, reg) ==
  accs @@ (reg.username :>
             [email |-> reg.email, role |-> reg.requested_role])

\* An email test that finds no user
EmailExists_Never(accs, email) == FALSE

\* Some user has this email
EmailExists(accs, email) == \E u \in DOMAIN accs : accs[u].email = email

\* A lookup by pk alone
NotFound_AnyStatus(pk) == pk \notin DOMAIN registrations

\* get_object_or_404(UserRegistration, pk=pk, status='Pending') raises
NotFound(pk) ==
  pk \notin DOMAIN registrations \/ registrations[pk].status # "Pending"

approve_registration(actor, pk) ==
  /\ IF ~AdminGate(actor)
     THEN /\ Answer("approve_registration", pk, 403)
          /\ UNCHANGED <<accounts, registrations>>
     ELSE IF NotFound(pk)
     THEN /\ Answer("approve_registration", pk, 404)
          /\ UNCHANGED <<accounts, registrations>>
     ELSE LET registration == registrations[pk]
          IN  IF registration.username \in DOMAIN accounts
              THEN /\ accounts' = ExistingUser(accounts, registration)
                   /\ registrations' =
                        [registrations EXCEPT
                           ![pk] = ApprovedBy(registration, actor, now)]
                   /\ Answer("approve_registration", pk, 200)
              ELSE IF EmailExists(accounts, registration.email)
              THEN /\ Answer("approve_registration", pk, 400)
                   /\ UNCHANGED <<accounts, registrations>>
              ELSE /\ accounts' = CreatedUser(accounts, registration)
                   /\ registrations' =
                        [registrations EXCEPT
                           ![pk] = ApprovedBy(registration, actor, now)]
                   /\ Answer("approve_registration", pk, 200)
  /\ UNCHANGED <<workers, now, ticks, requests, equipment>>

reject_registration(actor, pk) ==
  /\ IF ~AdminGate(actor)
     THEN /\ Answer("reject_registration", pk, 403)
          /\ UNCHANGED registrations
     ELSE IF NotFound(pk)
     THEN /\ Answer("reject_registration", pk, 404)
          /\ UNCHANGED registrations
     ELSE /\ registrations' =
               [registrations EXCEPT
                  ![pk].status = "Rejected", ![pk].approved_by = actor,
                  ![pk].approved_at = now]
          /\ Answer("reject_registration", pk, 200)
  /\ UNCHANGED <<workers, now, ticks, requests, equipment, accounts>>

\* The loop of UserRegistrationAdmin.approve_registrations over the
\* Pending registrations of the selection, newest first
RECURSIVE approve_each(_, _, _, _, _)
approve_each(accs, regs, pending, actor, t) ==
  IF pending = {} THEN [accounts |-> accs, registrations |-> regs]
  ELSE LET pk == CHOOSE k \in pending : \A j \in pending : j <= k
           registration == regs[pk]
           rest == pending \ {pk}
       IN  IF registration.username \in DOMAIN accs
           THEN approve_each(
                  [accs EXCEPT ![registration.username].role =
                                 registration.requested_role],
                  [regs EXCEPT ![pk] = ApprovedBy(registration, actor, t)],
                  rest, actor, t)
           ELSE IF EmailExists(accs, registration.email)
           THEN approve_each(accs, regs, rest, actor, t)
           ELSE approve_each(
                  accs @@ (registration.username :>
                             [email |-> registration.email,
                              role  |-> registration.requested_role]),
                  [regs EXCEPT ![pk] = ApprovedBy(registration, actor, t)],
                  rest, actor, t)

\* The admin action on a selection of registrations, run by a user of the
\* admin site
approve_registrations(actor, queryset) ==
  LET pending == {pk \in queryset : registrations[pk].status = "Pending"}
      done == approve_each(accounts, registrations, pending, actor, now)
  IN  /\ actor \in DOMAIN accounts
      /\ queryset # {}
      /\ accounts' = done.accounts
      /\ registrations' = done.registrations
      /\ Answer("approve_registrations", 0, 302)
      /\ UNCHANGED <<workers, now, ticks, requests, equipment>>

\* The admin action that rejects the Pending registrations of a selection
reject_registrations(actor, queryset) ==
  /\ actor \in DOMAIN accounts
  /\ queryset # {}
  /\ registrations' =
       [pk \in DOMAIN registrations |->
          IF pk \in queryset /\ registrations[pk].status = "Pending"
          THEN [registrations[pk] EXCEPT !.status = "Rejected"]
          ELSE registrations[pk]]
  /\ Answer("reject_registrations", 0, 302)
  /\ UNCHANGED <<workers, now, ticks, requests, equipment, accounts>>

NextAccounts ==
  \/ \E username \in SignupInputs.usernames, email \in SignupInputs.emails,
        requested_role \in SignupInputs.roles :
       signup(username, email, requested_role)
  \/ \E username \in SignupInputs.usernames, email \in SignupInputs.emails :
       create_manager(username, email)
  \/ \E username \in SignupInputs.usernames : admin_add_user(username)
  \/ \E actor \in SignupInputs.actors,
        pk \in SignupInputs.pks :
       approve_registration(actor, pk)
  \/ \E actor \in SignupInputs.actors,
        pk \in SignupInputs.pks :
       reject_registration(actor, pk)
  \/ \E actor \in SignupInputs.staff, queryset \in SUBSET DOMAIN registrations :
       approve_registrations(actor, queryset)
  \/ \E actor \in SignupInputs.staff, queryset \in SUBSET DOMAIN registrations :
       reject_registrations(actor, queryset)

SpecAccounts == Init /\ [][NextAccounts]_vars

\* Registration pk is Pending and its username is already an account
PendingForExisting(pk) ==
  /\ pk \in DOMAIN registrations
  /\ registrations[pk].status = "Pending"
  /\ registrations[pk].username \in DOMAIN accounts

\* What C20 allows an approval to do for registration pk
OnlyRoleAndApproval(pk, actor) ==
  LET u == registrations[pk].username
  IN  /\ u \in DOMAIN accounts'
      /\ accounts'[u] =
           [accounts[u] EXCEPT !.role = registrations[pk].requested_role]
      /\ registrations'[pk] =
           [registrations[pk] EXCEPT !.status = "Approved",
                                     !.approved_by = actor,
                                     !.approved_at = now]

\* C20: approving a Pending registration whose username already exists
\* creates no account and answers without error; it sets the role of that
\* account's profile to requested_role and marks the registration
\* Approved, and nothing else changes; the endpoint and the admin action
\* agree.
C20_ApproveExistingUsername ==
  [][/\ \A actor \in SignupInputs.actors, pk \in SignupInputs.pks :
          ( /\ last'.op = "approve_registration"
            /\ AdminGate(actor)
            /\ PendingForExisting(pk)
            /\ approve_registration(actor, pk) )
          => /\ OnlyRoleAndApproval(pk, actor)
             /\ DOMAIN accounts' = DOMAIN accounts
             /\ \A u \in DOMAIN accounts \ {registrations[pk].username} :
                  accounts'[u] = accounts[u]
             /\ \A k \in DOMAIN registrations \ {pk} :
                  registrations'[k] = registrations[k]
             /\ last'.status = 200
     /\ \A actor \in SignupInputs.staff,
           queryset \in SUBSET DOMAIN registrations :
          ( /\ last'.op = "approve_registrations"
            /\ approve_registrations(actor, queryset) )
          => \A pk \in queryset :
               PendingForExisting(pk)
               => /\ OnlyRoleAndApproval(pk, actor)
                  /\ \A u \in DOMAIN accounts' \ DOMAIN accounts :
                       \E k \in queryset \ {pk} :
                         registrations[k].username = u]_vars

\* C20 witness: a registration asking for role Technician is Approved
\* while its username belongs to an account whose email is not the
\* registration's: the account was not created from it, and it now has
\* the requested role
C20_Witness ==
  \E pk \in DOMAIN registrations :
    /\ registrations[pk].status = "Approved"
    /\ registrations[pk].requested_role = "Technician"
    /\ registrations[pk].username \in DOMAIN accounts
    /\ accounts[registrations[pk].username].email # registrations[pk].email
    /\ accounts[registrations[pk].username].role = "Technician"
    /\ last.op \in {"approve_registration", "approve_registrations"}

\* No two accounts hold the same email address
UniqueEmails ==
  \A u, v \in DOMAIN accounts :
    (accounts[u].email = accounts[v].email /\ accounts[u].email # <<>>)
    => u = v

\* The step is a signup, an approval or a rejection, single or bulk
RegistrationStep ==
  last'.op \in {"signup", "approve_registration", "reject_registration",
               "approve_registrations", "reject_registrations"}

\* Registration pk is Pending, its username is free and its email belongs
\* to an account
PendingWithTakenEmail(pk) ==
  /\ pk \in DOMAIN registrations
  /\ registrations[pk].status = "Pending"
  /\ registrations[pk].username \notin DOMAIN accounts
  /\ \E u \in DOMAIN accounts : accounts[u].email = registrations[pk].email

C22_TeamCopiedAtCreation ==
  [][\A pk \in DOMAIN requests' \ DOMAIN requests :
       /\ requests'[pk].maintenance_team # NoRef
       /\ requests'[pk].maintenance_team \in
            {equipment_team[requests'[pk].equipment]} \cup CreationInputs.teams
    ]_vars

\* C25: end_task by anyone but the request's assigned technician, also
\* when nobody is assigned, is refused for lack of authorization and
\* leaves the request unchanged.
C25_OnlyAssignedEnds ==
  [][\A pk \in DOMAIN requests, actor \in Actors :
       ( /\ last'.op = "end_task"
         /\ actor # requests[pk].assigned_technician
         /\ end_task(actor, pk, CreationInputs) )
       => /\ last'.status \in {401, 403}
          /\ requests'[pk] = requests[pk]
          /\ UNCHANGED equipment]_vars

\* C25 witness: end_task was refused with 403 for a started request in
\* stage In Progress that has an assigned technician
C25_Witness ==
  /\ last.op = "end_task"
  /\ last.status = 403
  /\ \E pk \in DOMAIN requests :
       /\ requests[pk].stage = "In Progress"
       /\ requests[pk].actual_start_time # None
       /\ requests[pk].assigned_technician # NoRef

\* The stage changes the technician form may save
TechnicianMoves ==
  {<<"New", "In Progress">>, <<"In Progress", "Repaired">>,
   <<"In Progress", "Scrap">>}

\* C26: the technician form saves no stage change but New to In Progress
\* and In Progress to Repaired or Scrap; a submission that names another
\* stage than the current one or one of these is refused by validation
\* and leaves the request unchanged.
C26_TechnicianFormMoves ==
  [][\A pk \in DOMAIN requests :
       last'.op = "technician_update"
       => /\ requests'[pk].stage # requests[pk].stage
             => <<requests[pk].stage, requests'[pk].stage>> \in TechnicianMoves
          /\ \A actor \in Actors, stage \in STAGE_CHOICES :
               ( /\ stage # requests[pk].stage
                 /\ <<requests[pk].stage, stage>> \notin TechnicianMoves
                 /\ technician_update(actor, pk,
                                      [CreationInputs EXCEPT !.stages = {stage}]) )
               => /\ last'.status # 302
                  /\ UNCHANGED <<requests, equipment>>]_vars

\* C26 witness: the form was shown again, nothing saved, for a request
\* that is in stage Repaired
C26_Witness ==
  /\ last.op = "technician_update"
  /\ last.status = 200
  /\ \E pk \in DOMAIN requests : requests[pk].stage = "Repaired"

\* C27: end_task by the assigned technician on a request that was never
\* started answers 400 and leaves the request unchanged; a request that
\* end_task completed has its start time and the duration between start
\* and end.
C27_EndNeedsStart ==
  [][\A pk \in DOMAIN requests :
       last'.op = "end_task"
       => /\ \A actor \in Users :
               ( /\ actor = requests[pk].assigned_technician
                 /\ requests[pk].actual_start_time = None
                 /\ end_task(actor, pk, CreationInputs) )
               => /\ last'.status = 400
                  /\ UNCHANGED <<requests, equipment>>
          /\ (last'.status = 200 /\ last'.pk = pk)
             => /\ requests'[pk].actual_start_time # None
                /\ requests'[pk].actual_start_time =
                     requests[pk].actual_start_time
                /\ requests'[pk].actual_end_time = now
                /\ LET secs == now - requests[pk].actual_start_time
                       hundredths == requests'[pk].duration_hours
                   IN  /\ 2 * (3600 * hundredths - 100 * secs) <= 3600
                       /\ 2 * (100 * secs - 3600 * hundredths) <= 3600]_vars

\* C27 witness: end_task answered 400 for a request that has an assigned
\* technician and no start time
C27_Witness ==
  /\ last.op = "end_task"
  /\ last.status = 400
  /\ \E pk \in DOMAIN requests :
       /\ requests[pk].assigned_technician # NoRef
       /\ requests[pk].actual_start_time = None

\* C28: a request in stage In Progress has its actual_start_time.
C28_InProgressHasStart ==
  \A pk \in DOMAIN requests :
    requests[pk].stage = "In Progress"
    => requests[pk].actual_start_time # None

\* C28 witness: a request in stage In Progress without technician, so
\* put there by the kanban endpoint or the manager form, with its start
\* time
C28_Witness ==
  \E pk \in DOMAIN requests :
    /\ requests[pk].stage = "In Progress"
    /\ requests[pk].assigned_technician = NoRef
    /\ requests[pk].actual_start_time # None

\* The step is an approval or a rejection, single or bulk
DecisionStep ==
  last'.op \in {"approve_registration", "reject_registration",
               "approve_registrations", "reject_registrations"}

\* C29: a registration's status changes only from Pending, to Approved or
\* Rejected, and a registration that is not Pending never changes; an
\* approval or rejection touches the account of a username only while a
\* Pending registration of that username exists; a registration whose
\* approval meets an email conflict stays Pending and gets no account.
C29_DecidedOnce ==
  [][/\ \A pk \in DOMAIN registrations :
          /\ pk \in DOMAIN registrations'
          /\ registrations'[pk].status # registrations[pk].status
             => /\ registrations[pk].status = "Pending"
                /\ registrations'[pk].status \in {"Approved", "Rejected"}
          /\ registrations[pk].status # "Pending"
             => registrations'[pk] = registrations[pk]
     /\ DecisionStep
        => /\ \A u \in DOMAIN accounts' :
                (u \notin DOMAIN accounts \/ accounts'[u] # accounts[u])
                => \E pk \in DOMAIN registrations :
                     /\ registrations[pk].username = u
                     /\ registrations[pk].status = "Pending"
                     /\ registrations'[pk].status = "Approved"
           /\ \A pk \in DOMAIN registrations :
                ( /\ registrations[pk].status = "Pending"
                  /\ registrations[pk].username \notin DOMAIN accounts
                  /\ \E u \in DOMAIN accounts :
                       accounts[u].email = registrations[pk].email
                  /\ last'.op \in {"approve_registration",
                                   "approve_registrations"} )
                => /\ registrations'[pk].status = "Pending"
                   /\ registrations[pk].username \notin DOMAIN accounts'
    ]_vars

\* C29 witness: the approval endpoint answered 404 for a registration
\* that had been rejected, and the username has no account
C29_Witness ==
  /\ last.op = "approve_registration"
  /\ last.status = 404
  /\ last.pk \in DOMAIN registrations
  /\ registrations[last.pk].status = "Rejected"
  /\ registrations[last.pk].username \notin DOMAIN accounts

(***************************************************************************)
(* The calendar view, statement by statement: the loop over               *)
(* equipment_with_intervals and the while loop inside it run one pass per  *)
(* step.  `last` holds the local variables of the running computation     *)
(* under op "calendar_loop" until the response is built.                   *)
(***************************************************************************)
\* The local variables of the view between two statements
Locals(year, month, entries, todo, e, current_date) ==
  [op |-> "calendar_loop", pk |-> 0, status |-> 0,
   data |-> [year |-> year, month |-> month, requests_by_date |-> entries,
             todo |-> todo, equipment |-> e, current_date |-> current_date]]

\* end_date of the running computation
LoopEnd ==
  date(last.data.year, last.data.month,
       days_in_month(last.data.year, last.data.month))

\* A loop that never moves to the next occurrence
NextOccurrence_Stuck(current_date, interval_days) == current_date

\* current_date += timedelta(days=interval_days)
NextOccurrence(current_date, interval_days) == current_date + interval_days

\* The view up to the head of the loop over equipment_with_intervals
calendar_begin(actor, in) ==
  /\ last.op # "calendar_loop"
  /\ AdminOrManagerGate(actor) = 0
  /\ \E year \in in.years, month \in in.months :
       last' = Locals(year, month,
                      {ScheduledEntry(pk) :
                         pk \in preventive_requests(
                                  date(year, month, 1),
                                  date(year, month,
                                       days_in_month(year, month)))},
                      equipment_with_intervals, NoRef, None)
  /\ UNCHANGED <<workers, now, ticks, requests, equipment, accounts, registrations>>

\* for equipment in equipment_with_intervals: the next equipment and the
\* test that guards its while loop
calendar_next_equipment ==
  /\ last.op = "calendar_loop"
  /\ last.data.equipment = NoRef
  /\ \E e \in last.data.todo :
       LET next_maintenance_date == get_next_maintenance_date(e, now)
       IN  last' =
             IF next_maintenance_date # None
                /\ next_maintenance_date <= LoopEnd
             THEN [last EXCEPT !.data.todo = @ \ {e},
                               !.data.equipment = e,
                               !.data.current_date = next_maintenance_date]
             ELSE [last EXCEPT !.data.todo = @ \ {e}]
  /\ UNCHANGED <<workers, now, ticks, requests, equipment, accounts, registrations>>

\* One pass of the while loop
calendar_loop_pass ==
  /\ last.op = "calendar_loop"
  /\ last.data.equipment # NoRef
  /\ last.data.current_date <= LoopEnd
  /\ LET e == last.data.equipment
         current_date == last.data.current_date
     IN  last' =
           [last EXCEPT
              !.data.requests_by_date =
                 IF ~existing_request(e, current_date)
                 THEN @ \cup {IntervalEntry(e, current_date)} ELSE @,
              !.data.current_date =
                 NextOccurrence(current_date,
                                equipment[e].maintenance_interval_days)]
  /\ UNCHANGED <<workers, now, ticks, requests, equipment, accounts, registrations>>

\* The while condition fails
calendar_loop_leave ==
  /\ last.op = "calendar_loop"
  /\ last.data.equipment # NoRef
  /\ last.data.current_date > LoopEnd
  /\ last' = [last EXCEPT !.data.equipment = NoRef,
                          !.data.current_date = None]
  /\ UNCHANGED <<workers, now, ticks, requests, equipment, accounts, registrations>>

\* The grid and the response, after the loop over the equipment
calendar_finish ==
  /\ last.op = "calendar_loop"
  /\ last.data.equipment = NoRef
  /\ last.data.todo = {}
  /\ LET year == last.data.year
         month == last.data.month
         by_date == last.data.requests_by_date
     IN  last' =
           [op |-> "calendar_view", pk |-> 0, status |-> 200,
            data |-> [year |-> year, month |-> month,
                      calendar_days |->
                        [i \in 1..weekday(date(year, month, 1)) |-> NoCell]
                        \o [day \in 1..days_in_month(year, month) |->
                              [date |-> date(year, month, day),
                               day |-> day,
                               requests |->
                                 {x \in by_date :
                                    x.date = date(year, month, day)}]],
                      prev_year |-> IF month = 1 THEN year - 1 ELSE year,
                      prev_month |-> IF month = 1 THEN 12 ELSE month - 1,
                      next_year |-> IF month = 12 THEN year + 1 ELSE year,
                      next_month |-> IF month = 12 THEN 1 ELSE month + 1,
                      today |-> DateOf(now)]]
  /\ UNCHANGED <<workers, now, ticks, requests, equipment, accounts, registrations>>

\* Stored states with at most one request
InitLoop == InitSchedule /\ Len(requests) <= 1

NextLoop ==
  \/ \E actor \in Actors : calendar_begin(actor, ScheduleInputs)
  \/ calendar_next_equipment
  \/ calendar_loop_pass
  \/ calendar_loop_leave
  \/ calendar_finish

\* the view's thread keeps running once it has started
SpecLoop ==
  /\ InitLoop
  /\ [][NextLoop]_vars
  /\ WF_vars(calendar_next_equipment)
  /\ WF_vars(calendar_loop_pass)
  /\ WF_vars(calendar_loop_leave)
  /\ WF_vars(calendar_finish)

\* C30: the calendar computation ends with its response; its while loop
\* runs only for an equipment that is not scrapped and has a positive
\* interval, so not for a null, zero or negative one; the response is the
\* calendar of the month.
C30_CalendarTerminates ==
  /\ [](last.op = "calendar_loop" =>
          /\ \A e \in last.data.todo \cup ({last.data.equipment} \ {NoRef}) :
               /\ equipment[e].maintenance_interval_days # None
               /\ equipment[e].maintenance_interval_days > 0
          /\ last.data.current_date # None
             => last.data.current_date <=
                  LoopEnd + equipment[last.data.equipment].maintenance_interval_days)
  /\ [](last.op = "calendar_view" =>
          last.data.calendar_days =
            calendar_days(last.data.year, last.data.month, now))
  /\ (last.op = "calendar_loop") ~> (last.op = "calendar_view")

\* C30 witness: in the computation of March 2023 the while loop has made
\* one pass for an equipment with interval 30 and stands at the head of
\* the second
C30_Witness ==
  /\ last.op = "calendar_loop"
  /\ last.data.month = 3
  /\ last.data.equipment # NoRef
  /\ equipment[last.data.equipment].maintenance_interval_days = 30
  /\ last.data.current_date =
       get_next_maintenance_date(last.data.equipment, now) + 30
  /\ last.data.current_date <= LoopEnd
  /\ \E x \in last.data.requests_by_date : x.type = "interval"

(***************************************************************************)
(* Two workers serving requests at the same time.  end_task and            *)
(* update_request_stage read the row (get_object_or_404), assign to the    *)
(* instance in memory and call save(); save() reads self.equipment, tests  *)
(* is_scrapped, writes the equipment row and then the request row.  No     *)
(* transaction.atomic and no select_for_update surrounds any of it, so     *)
(* the reads and writes of two workers interleave freely.                  *)
(***************************************************************************)
\* The operations the workers serve
ConcurrentInputs ==
  [ops |-> {"end_task", "update_request_stage"},
   actors |-> {"tech", "mgr"},
   stages |-> STAGE_CHOICES]

\* Two requests on the same equipment, both started by their technician
\* at time 0, with different resolution summaries
StartedRows ==
  <<[Started(BreakdownRequest("e1"), "tech", 0)
       EXCEPT !.resolution_summary = <<"a">>],
    [Started(BreakdownRequest("e1"), "tech", 0)
       EXCEPT !.resolution_summary = <<"b">>]>>

InitConcurrent ==
  /\ now = 7200
  /\ ticks = 0
  /\ requests = StartedRows
  /\ equipment = [e \in EquipmentIds |-> NewEquipment(None, None)]
  /\ accounts = InitialAccounts
  /\ registrations = <<>>
  /\ last = Idle
  /\ workers = NoWorkers

\* The status with which the handler returns before it assigns anything;
\* 0 when it goes on
Refusal(op, actor, r) ==
  IF actor = Anonymous THEN 401
  ELSE IF op = "end_task" /\ NotAssigned(r, actor) THEN 403
  ELSE IF op = "end_task" /\ NotStarted(r) THEN 400
  ELSE 0

\* The instance in memory after the handler's assignments to the row r0
\* it read
Assigned(op, r0, new_stage, t) ==
  IF op = "end_task" THEN Ended(r0, t) ELSE StageUpdated(r0, new_stage, t)

\* The handler from get_object_or_404 up to the call of save()
receive(w, op, actor, pk, new_stage) ==
  /\ workers[w].pc = "idle"
  /\ LET status == Refusal(op, actor, requests[pk])
     IN  /\ workers' =
               [workers EXCEPT ![w] =
                  [Resting EXCEPT
                     !.pc = IF status # 0 THEN "done" ELSE "saving",
                     !.op = op, !.actor = actor, !.pk = pk,
                     !.stage = new_stage,
                     !.r = IF status # 0 THEN <<>>
                           ELSE Assigned(op, requests[pk], new_stage, now)]]
         /\ last' = IF status # 0
                    THEN [op |-> op, pk |-> pk, status |-> status,
                          data |-> NoData]
                    ELSE Idle
  /\ UNCHANGED <<now, ticks, requests, equipment, accounts, registrations>>

\* models.py save(): self.equipment is read from the database when the
\* stage is Scrap
fetch_equipment(w) ==
  /\ workers[w].pc = "saving"
  /\ workers[w].r.stage = "Scrap"
  /\ workers' = [workers EXCEPT ![w].pc = "cascade",
                                ![w].e = equipment[workers[w].r.equipment]]
  /\ last' = Idle
  /\ UNCHANGED <<now, ticks, requests, equipment, accounts, registrations>>

\* models.py save(): the test of is_scrapped on the instance read before,
\* self.equipment.save() and super().save(); then the response
write(w) ==
  LET me == workers[w]
      fires == me.pc = "cascade" /\ ~me.e.is_scrapped
  IN  /\ \/ me.pc = "saving" /\ me.r.stage # "Scrap"
         \/ me.pc = "cascade"
      /\ equipment' = IF fires
                      THEN [equipment EXCEPT ![me.r.equipment] =
                              ScrapCascade(me.r, me.e, now)]
                      ELSE equipment
      /\ requests' = [requests EXCEPT ![me.pk] = SavedRow(me.r, now)]
      /\ workers' = [workers EXCEPT ![w].pc = "done", ![w].cascaded = fires]
      /\ last' = [op |-> me.op, pk |-> me.pk, status |-> 200,
                   data |-> NoData]
      /\ UNCHANGED <<now, ticks, accounts, registrations>>

NextConcurrent ==
  \/ \E w \in Workers, op \in ConcurrentInputs.ops,
        actor \in ConcurrentInputs.actors, pk \in DOMAIN requests,
        new_stage \in ConcurrentInputs.stages :
       receive(w, op, actor, pk, new_stage)
  \/ \E w \in Workers : fetch_equipment(w)
  \/ \E w \in Workers : write(w)

SpecConcurrent == InitConcurrent /\ [][NextConcurrent]_vars

\* The row left by serving a worker's request on row r0 from receipt to
\* response with nothing in between
Served(w, r0) ==
  IF Refusal(workers[w].op, workers[w].actor, r0) # 0 THEN r0
  ELSE SavedRow(Assigned(workers[w].op, r0, workers[w].stage, now), now)

\* C23: when two operations on the same request have both been answered,
\* the row is the one that serving them one after the other, in one of the
\* two orders, leaves; no write of one is lost to the other's stale copy.
C23_Serialized ==
  (/\ workers["w1"].pc = "done"
   /\ workers["w2"].pc = "done"
   /\ workers["w1"].pk = workers["w2"].pk)
  => LET pk == workers["w1"].pk
     IN  requests[pk] \in
           {Served("w2", Served("w1", StartedRows[pk])),
            Served("w1", Served("w2", StartedRows[pk]))}

\* C24: once an equipment is scrapped no save() fires the cascade again
\* and its scrap fields stay as the first cascade wrote them, whichever
\* way the saves of two workers interleave.
C24_CascadeOnce ==
  [][\A e \in EquipmentIds :
       equipment[e].is_scrapped
       => /\ equipment'[e] = equipment[e]
          /\ \A w \in Workers :
               (workers'[w].pc = "done" /\ workers'[w].pc # workers[w].pc
                /\ workers'[w].r # <<>> /\ workers'[w].r.equipment = e)
               => ~workers'[w].cascaded]_vars

====
